---------------------------- MODULE Spec2Model ----------------------------
(***************************************************************************)
(* A model of seymour, a feed reader for the gemini protocol.              *)
(*                                                                         *)
(*   SpecRedirect  the fetch engine's redirect loop (src/src/gemini.rs)    *)
(*   SpecTls       the certificate verifiers (src/src/gemini.rs)           *)
(*   SpecParse     the feed document parser (src/src/gemini/feed.rs)       *)
(*   SpecDecode    the response codec (src/src/gemini.rs)                  *)
(*   Spec          the store, the synchronization scheduler and the        *)
(*                 client commands that race with it (src/src/main.rs)     *)
(*   SpecClient    the client connections and their commands               *)
(*                 (src/src/main.rs, src/src/protocol.rs)                  *)
(***************************************************************************)
EXTENDS Integers, Sequences, FiniteSets, TLC

\* ------------------------------------------------------------- bounds
\* Length of the script of responses the remote servers answer with.
MaxChain == 6
\* Instants run over 0..MaxTime.
MaxTime == 2
\* Longest certificate chain a server presents.
MaxCertChain == 2
\* Client connections, each with its own selected user.
NumConns == 2
\* Ticks of the scheduler's timer.
MaxTicks == 2
\* Rows ever inserted into feeds.
MaxFeedId == 2
\* Commands the clients send in all.
MaxCommands == 2
\* lines of a feed body
MaxLines == 3
\* characters of a status line
MaxHeaderLen == 6

\* -------------------------------------------------- program constants
REDIRECT_CAP == 5

VARIABLES
    \* fetch engine (fetch_page_handle_redirects)
    server,          \* the i-th connection opened is answered by server[i]
    full_url,        \* the argument of the call
    url_to_fetch,
    attempts,
    fetches,         \* connections opened so far by this call
    r_pc,            \* "loop" | "returned" | "failed"
    r_result,        \* the Page returned, or the error
    \* certificate verification (one TLS handshake)
    validation,      \* Option<ServerTLSValidation>: "None" | "SelfSigned" | "Chained"
    fingerprint,     \* CertificateFingerprint {digest, not_after}
    presented_certs,
    now,             \* unix_now()
    webpki_ok,       \* what WebPKIVerifier::verify_server_cert answers for this chain
    verdict,         \* "pending" | "Ok" | the TLSError
    \* the store (tables of the sqlite database)
    feeds,           \* rows [id, url]
    subscriptions,   \* rows [user_id, feed_id]
    feed_entries,    \* rows [id, feed_id, title, published_at, url]
    feed_seq,        \* last rowid given out by feeds
    entry_seq,       \* last rowid given out by feed_entries
    \* the scheduler task (check_feeds_task)
    sched_pc,        \* "sleep" | "join" | "prune" | "prune_commit" | "dead"
    tick,            \* number of the current tick
    pipes,           \* feed id -> the check_feed future of the current tick
    prune_rows,      \* feed ids the orphan SELECT returned
    last_prune,      \* "none" | "ok" | "err": how the last pruning pass ended
    \* client connections (handle_connection)
    conns,           \* connection -> [pc, url, feed_id]
    commands,        \* SUBSCRIBE and UNSUBSCRIBE commands received so far
    users,           \* rows [id, username]
    views,           \* rows [user_id, feed_entry_id]
    user_seq,        \* last rowid given out by users
    conn_user,       \* connection -> Connection.user: NoUser or User {id}
    pending,         \* connection -> the username select_user is about to insert
    sent,            \* the last response written: [conn, lines]
    \* feed document parser (one call of Feed::try_from)
    p_body,          \* page.body: Option<String>, read as its lines
    p_result,        \* [res, feed]: res is "pending" or what the call ended in
    \* response codec (the decoding at the end of one fetch_page)
    d_response,      \* the bytes read from the connection
    d_result         \* [res, page]: res is "pending" or how the decoding ended

rvars == <<server, full_url, url_to_fetch, attempts, fetches, r_pc, r_result>>
tvars == <<validation, fingerprint, presented_certs, now, webpki_ok, verdict>>
dbvars == <<feeds, subscriptions, feed_entries, feed_seq, entry_seq>>
schedvars == <<sched_pc, tick, pipes, prune_rows, last_prune>>
uvars == <<users, views, user_seq, conn_user, pending>>
cvars == <<uvars, sent>>
svars == <<dbvars, schedvars, conns, commands, cvars>>
pvars == <<p_body, p_result>>
dvars == <<d_response, d_result>>
xvars == <<pvars, dvars>>
vars == <<rvars, tvars, svars, xvars>>

\* ======================================================================
\* Fetch engine: fetch_page and fetch_page_handle_redirects
\* ======================================================================
GeminiUrls == {"gemini://a/", "gemini://b/"}
OtherUrls == {"https://a/"}

\* Url::scheme() of a parsed URL.
Scheme(url) == IF url \in GeminiUrls THEN "gemini" ELSE "https"

\* What one connection can be answered with: a decodable response (status,
\* meta, body) or a failure of the transport or of the decoding.
Responses ==
    { [kind |-> "page", status |-> 20, meta |-> "text/gemini", body |-> "feed"],
      [kind |-> "page", status |-> 30, meta |-> "gemini://a/", body |-> "None"],
      [kind |-> "page", status |-> 31, meta |-> "gemini://b/", body |-> "None"],
      [kind |-> "page", status |-> 30, meta |-> "https://a/", body |-> "None"],
      [kind |-> "page", status |-> 51, meta |-> "Not found", body |-> "None"],
      [kind |-> "err", status |-> 0, meta |-> "Transport", body |-> "None"] }

fetch_page_scheme_last(url, resp) ==
    IF Scheme(url) # "gemini"
    THEN [ok |-> FALSE, connected |-> TRUE, err |-> "UnsupportedScheme"]
    ELSE IF resp.kind = "err"
    THEN [ok |-> FALSE, connected |-> TRUE, err |-> resp.meta]
    ELSE [ok |-> TRUE, connected |-> TRUE,
          page |-> [url |-> url, status |-> resp.status,
                    meta |-> resp.meta, body |-> resp.body]]

\* fetch_page: the scheme is checked before any connection is opened; then
\* the response read from the connection is decoded into a Page.
fetch_page(url, resp) ==
    IF Scheme(url) # "gemini"
    THEN [ok |-> FALSE, connected |-> FALSE, err |-> "UnsupportedScheme"]
    ELSE IF resp.kind = "err"
    THEN [ok |-> FALSE, connected |-> TRUE, err |-> resp.meta]
    ELSE [ok |-> TRUE, connected |-> TRUE,
          page |-> [url |-> url, status |-> resp.status,
                    meta |-> resp.meta, body |-> resp.body]]

IsRedirectOnlyTemporary(status) == status = 30

\* if let Status::TemporaryRedirect | Status::PermanentRedirect = page.header.status
IsRedirect(status) == status \in {30, 31}

LoopCondInclusive(n) == n <= REDIRECT_CAP

\* while attempts < REDIRECT_CAP
LoopCond(n) == n < REDIRECT_CAP

\* One iteration of the loop: fetch url_to_fetch, then follow or return.
LoopFetch ==
    /\ r_pc = "loop"
    /\ LoopCond(attempts)
    /\ fetches < Len(server)
    /\ LET res == fetch_page(url_to_fetch, server[fetches + 1]) IN
         /\ fetches' = IF res.connected THEN fetches + 1 ELSE fetches
         /\ IF ~res.ok
            THEN /\ r_pc' = "failed"
                 /\ r_result' = res.err
                 /\ UNCHANGED <<attempts, url_to_fetch>>
            ELSE IF IsRedirect(res.page.status)
            THEN /\ attempts' = attempts + 1
                 /\ url_to_fetch' = res.page.meta
                 /\ UNCHANGED <<r_pc, r_result>>
            ELSE /\ r_pc' = "returned"
                 /\ r_result' = res.page
                 /\ UNCHANGED <<attempts, url_to_fetch>>
    /\ UNCHANGED <<server, full_url, tvars, svars, xvars>>

\* The loop condition fails: Err("reached maximum redirect cap of 5").
LoopExit ==
    /\ r_pc = "loop"
    /\ ~LoopCond(attempts)
    /\ r_pc' = "failed"
    /\ r_result' = "RedirectCap"
    /\ UNCHANGED <<server, full_url, url_to_fetch, attempts, fetches, tvars, svars, xvars>>

\* ======================================================================
\* Response codec: Status::from_str, Header::from_str, end of fetch_page
\* ======================================================================
\* A status line is a sequence of characters out of a small alphabet.
HeaderChars == {"2", "0", "6", " ", "m"}

HeaderLines == UNION {[1..n -> HeaderChars] : n \in 0..MaxHeaderLen}

\* The lines after the status line.
BodyTexts == {<<>>, <<"">>, <<"", "">>, <<"# Hello">>}

\* Status::from_str: the 18 codes.
StatusTable ==
    { [text |-> <<"1", "0">>, code |-> 10], [text |-> <<"1", "1">>, code |-> 11],
      [text |-> <<"2", "0">>, code |-> 20],
      [text |-> <<"3", "0">>, code |-> 30], [text |-> <<"3", "1">>, code |-> 31],
      [text |-> <<"4", "0">>, code |-> 40], [text |-> <<"4", "1">>, code |-> 41],
      [text |-> <<"4", "2">>, code |-> 42], [text |-> <<"4", "3">>, code |-> 43],
      [text |-> <<"4", "4">>, code |-> 44],
      [text |-> <<"5", "0">>, code |-> 50], [text |-> <<"5", "1">>, code |-> 51],
      [text |-> <<"5", "2">>, code |-> 52], [text |-> <<"5", "3">>, code |-> 53],
      [text |-> <<"5", "9">>, code |-> 59],
      [text |-> <<"6", "0">>, code |-> 60], [text |-> <<"6", "1">>, code |-> 61],
      [text |-> <<"6", "2">>, code |-> 62] }

StatusFromStr(s) ==
    IF \E e \in StatusTable : e.text = s
    THEN [ok |-> TRUE, code |-> (CHOOSE e \in StatusTable : e.text = s).code]
    ELSE [ok |-> FALSE, code |-> 0]

\* str::trim, on lines that hold no other white space than " ".
RECURSIVE TrimStart(_)
TrimStart(s) == IF s # <<>> /\ Head(s) = " " THEN TrimStart(Tail(s)) ELSE s

RECURSIVE TrimEnd(_)
TrimEnd(s) ==
    IF s # <<>> /\ s[Len(s)] = " " THEN TrimEnd(SubSeq(s, 1, Len(s) - 1)) ELSE s

Trim(s) == TrimEnd(TrimStart(s))

\* str::split(' '): one part more than there are spaces, parts may be empty.
RECURSIVE Split(_)
Split(s) ==
    IF \A i \in 1..Len(s) : s[i] # " "
    THEN <<s>>
    ELSE LET k == CHOOSE i \in 1..Len(s) :
                      s[i] = " " /\ \A j \in 1..(i - 1) : s[j] # " "
         IN <<SubSeq(s, 1, k - 1)>> \o Split(SubSeq(s, k + 1, Len(s)))

HeaderPartsUntrimmed(s) == Split(s)

\* s.trim().split(' ').collect()
HeaderParts(s) == Split(Trim(s))

NoHeader == [status |-> 0, meta |-> <<>>]

\* Header::from_str
HeaderFromStr(s) ==
    LET parts == HeaderParts(s) IN
    IF Len(parts) < 1 THEN [res |-> "MissingStatus", header |-> NoHeader]
    ELSE IF ~StatusFromStr(parts[1]).ok
    THEN [res |-> "InvalidStatus", header |-> NoHeader]
    ELSE IF Len(parts) < 2 THEN [res |-> "MissingMeta", header |-> NoHeader]
    ELSE [res |-> "Ok",
          header |-> [status |-> StatusFromStr(parts[1]).code, meta |-> parts[2]]]

\* response_lines.join("\n"), then None if the result is empty.
BodyOf(rest) ==
    IF rest = <<>> \/ rest = <<"">>
    THEN [some |-> FALSE, lines |-> <<>>]
    ELSE [some |-> TRUE, lines |-> rest]

NoPage == [header |-> NoHeader, body |-> [some |-> FALSE, lines |-> <<>>]]

\* fetch_page from String::from_utf8(data) on.
DecodeResponse(resp) ==
    IF ~resp.utf8 THEN [res |-> "FromUtf8Error", page |-> NoPage]
    ELSE IF ~resp.has_header THEN [res |-> "MissingHeader", page |-> NoPage]
    ELSE LET h == HeaderFromStr(resp.header) IN
         IF h.res # "Ok" THEN [res |-> h.res, page |-> NoPage]
         ELSE [res |-> "Ok", page |-> [header |-> h.header, body |-> BodyOf(resp.rest)]]

\* What a peer can have sent before it closed the connection: nothing, or
\* a first line and what follows it; the bytes may fail to be UTF-8.
RawResponses ==
    {[utf8 |-> TRUE, has_header |-> FALSE, header |-> <<>>, rest |-> <<>>]}
    \cup [utf8 : BOOLEAN, has_header : {TRUE}, header : HeaderLines, rest : BodyTexts]

Decode ==
    /\ d_result.res = "pending"
    /\ d_result' = DecodeResponse(d_response)
    /\ UNCHANGED <<d_response, pvars, rvars, tvars, svars>>

\* ======================================================================
\* Certificate verification
\* ======================================================================
Times == 0..MaxTime
Ders == {1, 2}

\* ring::digest::digest(&SHA256, der): distinct encodings, distinct digests.
Sha256(der) == <<"sha256", der>>

\* A certificate as x509_signature reads it: whether the DER parses, its
\* validity interval and whether issuer and subject agree.
Certs ==
    [der : Ders, wellformed : BOOLEAN, not_before : {0, 1},
     not_after : {1, MaxTime}, self_issued : BOOLEAN]

IssuerCert ==
    [der |-> 1, wellformed |-> TRUE, not_before |-> 0, not_after |-> MaxTime,
     self_issued |-> FALSE]

\* verify_selfsigned_certificate, its error mapped by map_sig_to_webpki_err.
verify_selfsigned_certificate(cert, t) ==
    IF ~cert.wellformed THEN "BadDER"
    ELSE IF t < cert.not_before THEN "CertNotValidYet"
    ELSE IF t > cert.not_after THEN "CertExpired"
    ELSE IF ~cert.self_issued THEN "UnknownIssuer"
    ELSE "Ok"

\* WebPKIVerifier::verify_server_cert: chain validation against the roots.
WebPKIVerifier(ok) == IF ok THEN "Ok" ELSE "WebPKIError"

\* ExpectSelfSignedVerifier::verify_server_cert
ExpectSelfSignedVerifier(fp, certs, t, ok) ==
    IF Len(certs) = 1
    THEN IF t > fp.not_after
         THEN IF Sha256(certs[1].der) = fp.digest
              THEN "Ok"
              ELSE WebPKIVerifier(ok)
         ELSE verify_selfsigned_certificate(certs[1], t)
    ELSE WebPKIVerifier(ok)

PossiblySelfSignedFallsBack(certs, t, ok) ==
    IF Len(certs) = 1 /\ verify_selfsigned_certificate(certs[1], t) = "Ok"
    THEN "Ok"
    ELSE WebPKIVerifier(ok)

\* PossiblySelfSignedVerifier::verify_server_cert
PossiblySelfSignedVerifier(certs, t, ok) ==
    IF Len(certs) = 1
    THEN verify_selfsigned_certificate(certs[1], t)
    ELSE WebPKIVerifier(ok)

\* build_tls_config followed by the handshake's call of the verifier it set.
VerifyOpportunistic ==
    /\ verdict = "pending"
    /\ validation = "None"
    /\ verdict' = PossiblySelfSignedVerifier(presented_certs, now, webpki_ok)
    /\ UNCHANGED <<validation, fingerprint, presented_certs, now, webpki_ok, rvars, svars, xvars>>

VerifyPinned ==
    /\ verdict = "pending"
    /\ validation = "SelfSigned"
    /\ verdict' = ExpectSelfSignedVerifier(fingerprint, presented_certs, now, webpki_ok)
    /\ UNCHANGED <<validation, fingerprint, presented_certs, now, webpki_ok, rvars, svars, xvars>>

VerifyChained ==
    /\ verdict = "pending"
    /\ validation = "Chained"
    /\ verdict' = WebPKIVerifier(webpki_ok)
    /\ UNCHANGED <<validation, fingerprint, presented_certs, now, webpki_ok, rvars, svars, xvars>>

\* ======================================================================
\* Feed document parser (Entry::from_str, Feed::try_from)
\* ======================================================================
\* A body line is read through what the parser tests of it: which of the
\* prefixes "# ", "## ", "=> " it starts with (at most one can), the text
\* after the prefix, and what ENTRY_REGEX captures of the whole line.
NoCapture == [matched |-> FALSE, link |-> "", date |-> <<0, 0, 0>>, title |-> ""]

TitleLine(t) == [prefix |-> "# ", text |-> t, cap |-> NoCapture]
SubtitleLine(t) == [prefix |-> "## ", text |-> t, cap |-> NoCapture]
TextLine(t) == [prefix |-> "", text |-> t, cap |-> NoCapture]
\* "=> <link>": no date, the pattern does not match.
LinkLine(l) == [prefix |-> "=> ", text |-> l, cap |-> NoCapture]
\* "=> <link> <YYYY>-<MM>-<DD> <title>"
EntryLine(l, d, t) ==
    [prefix |-> "=> ", text |-> l,
     cap |-> [matched |-> TRUE, link |-> l, date |-> d, title |-> t]]

IsLeap(y) == (y % 4 = 0 /\ y % 100 # 0) \/ y % 400 = 0

DaysInMonth(y, m) ==
    IF m = 2 THEN (IF IsLeap(y) THEN 29 ELSE 28)
    ELSE IF m \in {4, 6, 9, 11} THEN 30 ELSE 31

\* NaiveDate::from_ymd panics unless the date is one of the calendar.
ValidYmd(d) == d[2] \in 1..12 /\ d[3] \in 1..DaysInMonth(d[1], d[2])

\* Entry::from_str: "Err" (no capture), "panic" (from_ymd) or "Ok".
EntryFromStr(line) ==
    IF ~line.cap.matched
    THEN [res |-> "Err", entry |-> NoCapture]
    ELSE IF ~ValidYmd(line.cap.date)
    THEN [res |-> "panic", entry |-> NoCapture]
    ELSE [res |-> "Ok", entry |-> line.cap]

NoneStr == [some |-> FALSE, v |-> ""]
NoneIdx == [some |-> FALSE, v |-> 0]

ScanStart ==
    [title |-> NoneStr, title_line |-> NoneIdx, subtitle |-> NoneStr,
     entries |-> <<>>, panicked |-> FALSE, underflow |-> FALSE]

TitleUnsetOrSet(title) == TRUE

\* if let None = title
TitleUnset(title) == ~title.some

SubtitleAfter(title_idx, i) == title_idx < i

\* if title_idx == i - 1
SubtitleAdjacent(title_idx, i) == title_idx = i - 1

\* The body of the loop of Feed::try_from for line number i (from 0).
ScanLine(st, i, line) ==
    IF line.prefix = "# "
    THEN IF TitleUnset(st.title)
         THEN [st EXCEPT !.title = [some |-> TRUE, v |-> line.text],
                         !.title_line = [some |-> TRUE, v |-> i]]
         ELSE st
    ELSE IF line.prefix = "## "
    THEN IF ~st.subtitle.some /\ st.title_line.some
         THEN IF i = 0
              THEN [st EXCEPT !.underflow = TRUE]
              ELSE IF SubtitleAdjacent(st.title_line.v, i)
                   THEN [st EXCEPT !.subtitle = [some |-> TRUE, v |-> line.text]]
                   ELSE st
         ELSE st
    ELSE IF line.prefix = "=> "
    THEN LET e == EntryFromStr(line) IN
         IF e.res = "Ok" THEN [st EXCEPT !.entries = Append(@, e.entry)]
         ELSE IF e.res = "panic" THEN [st EXCEPT !.panicked = TRUE]
         ELSE st
    ELSE st

RECURSIVE Scan(_, _, _)
Scan(st, i, lines) ==
    IF i >= Len(lines) \/ st.panicked \/ st.underflow
    THEN st
    ELSE Scan(ScanLine(st, i, lines[i + 1]), i + 1, lines)

\* Feed::try_from(page): body is Option<String>, read as Option<lines>.
FeedTryFrom(body) ==
    IF ~body.some
    THEN [res |-> "EmptyPage", feed |-> ScanStart]
    ELSE LET st == Scan(ScanStart, 0, body.lines) IN
         IF st.panicked \/ st.underflow THEN [res |-> "panic", feed |-> st]
         ELSE IF ~st.title.some THEN [res |-> "MissingTitle", feed |-> st]
         ELSE [res |-> "Ok", feed |-> st]

\* The lines a body is made of: two titles, two subtitles, a line of text,
\* a link without a date (or with one ENTRY_REGEX does not match), two
\* entries, and an entry whose date has the shape of one but is none.
BodyLines ==
    { TitleLine("Hello"), TitleLine("Again"),
      SubtitleLine("World"), SubtitleLine("More"),
      TextLine(""),
      LinkLine("gemini://x/about"),
      EntryLine("gemini://x/1", <<2020, 1, 1>>, "Post"),
      EntryLine("gemini://x/2", <<2020, 2, 29>>, "Other"),
      EntryLine("gemini://x/3", <<2020, 13, 45>>, "Bad") }

\* Page.body: None, or Some(body) with body not empty.
PageBodies ==
    {[some |-> FALSE, lines |-> <<>>]}
    \cup {[some |-> TRUE, lines |-> ls] :
            ls \in UNION {[1..n -> BodyLines] : n \in 1..MaxLines}}

\* let feed: Feed = page.try_into()
ParseFeed ==
    /\ p_result.res = "pending"
    /\ p_result' = FeedTryFrom(p_body)
    /\ UNCHANGED <<p_body, dvars, rvars, tvars, svars>>

\* ======================================================================
\* The store
\* ======================================================================
\* Rows feed_entries can hold: two links per feed.
MaxEntryId == 2 * MaxFeedId

Conns == 1..NumConns

\* Usernames clients claim.
Usernames == <<"alice", "bob", "carol">>

Range(s) == {s[i] : i \in DOMAIN s}

\* rowid of a row inserted into feeds.
NewFeedId(seq) == seq + 1

\* INSERT INTO feeds (url) VALUES (?1): feeds.url is UNIQUE.
FeedInsert(table, seq, url) ==
    IF \E f \in table : f.url = url
    THEN [ok |-> FALSE, id |-> 0, table |-> table]
    ELSE [ok |-> TRUE, id |-> NewFeedId(seq),
          table |-> table \cup {[id |-> NewFeedId(seq), url |-> url]}]

\* feed_entries is UNIQUE(feed_id, url).
EntryKey(r) == <<r.feed_id, r.url>>

EntryInsertNoIgnore(committed, tx, row) == Append(tx, row)

\* INSERT OR IGNORE INTO feed_entries (feed_id, title, published_at, url)
\* inside the transaction tx: a row whose key is taken is dropped silently.
EntryInsertOrIgnore(committed, tx, row) ==
    IF \E r \in committed \cup Range(tx) : EntryKey(r) = EntryKey(row)
    THEN tx
    ELSE Append(tx, row)

EntryCommitFirst(committed, seq, tx) ==
    committed \cup
        { [id |-> seq + i, feed_id |-> tx[i].feed_id, title |-> tx[i].title,
           published_at |-> tx[i].published_at, url |-> tx[i].url]
          : i \in DOMAIN tx \cap {1} }

\* tx.commit(): the rows of the transaction get their rowids and are stored.
EntryCommit(committed, seq, tx) ==
    committed \cup
        { [id |-> seq + i, feed_id |-> tx[i].feed_id, title |-> tx[i].title,
           published_at |-> tx[i].published_at, url |-> tx[i].url]
          : i \in 1..Len(tx) }

\* SELECT id FROM feeds WHERE id NOT IN (SELECT feed_id FROM subscriptions ...)
OrphanFeeds(fs, subs) ==
    {f.id : f \in {g \in fs : ~\E s \in subs : s.feed_id = g.id}}

\* ======================================================================
\* The remote servers, as the scheduler's fetches see them
\* ======================================================================
Some(ls) == [some |-> TRUE, lines |-> ls]
NoBody == [some |-> FALSE, lines |-> <<>>]

Bodies ==
    { \* one entry, its title and date edited, and a link line without a date
      Some(<<TitleLine("Hello"), SubtitleLine("World"), LinkLine("gemini://x/about"),
             EntryLine("gemini://x/1", <<2020, 1, 2>>, "Edited")>>),
      \* the same link twice, and a second link
      Some(<<TitleLine("Hello"), EntryLine("gemini://x/1", <<2020, 1, 1>>, "Post"),
             EntryLine("gemini://x/1", <<2020, 1, 1>>, "Post"),
             EntryLine("gemini://x/2", <<2020, 2, 29>>, "Other")>>),
      \* no entry
      Some(<<TitleLine("Hello"), TextLine("nothing yet")>>),
      \* no title
      Some(<<EntryLine("gemini://x/1", <<2020, 1, 1>>, "Post")>>),
      \* a date that is no calendar date
      Some(<<TitleLine("Hello"), EntryLine("gemini://x/2", <<2020, 13, 45>>, "Other")>>),
      NoBody }

\* Statuses of the page a fetch returns: success, and a permanent failure.
FinalStatuses == {20, 51}

\* Page::fetch_and_handle_redirects(feed_url): an error of the fetch engine
\* (transport, decoding, redirect cap) or the page it returns, which is the
\* first response that is no redirect, whatever its status.
FetchOutcomes ==
    {[ok |-> FALSE, err |-> e, status |-> 0, body |-> NoBody] :
        e \in {"Transport", "RedirectCap"}}
    \cup {[ok |-> TRUE, err |-> "", status |-> st, body |-> b] :
            st \in FinalStatuses, b \in Bodies}

\* ======================================================================
\* check_feed: one feed's fetch, parse and persist pipeline
\* ======================================================================
NewPipe(url, t) ==
    [url |-> url, pc |-> "fetch", status |-> 0, entries |-> <<>>, next |-> 1,
     tx |-> <<>>, tick |-> t]

Ended(p) == p.pc \in {"ok", "err", "dropped"}

\* The future returns Ok(()) or Err(e); e is only logged by check_feeds.  A
\* transaction not committed is rolled back when it is dropped.
PipeEnd(f, pc) ==
    pipes' = [pipes EXCEPT ![f] =
        [@ EXCEPT !.pc = pc, !.tx = <<>>, !.next = 1, !.status = 0,
                  !.entries = IF pc = "ok" THEN @ ELSE <<>>]]

\* A panic unwinds through join_all: the scheduler task ends and the futures
\* it held are dropped.
PipePanic ==
    /\ sched_pc' = "dead"
    /\ pipes' = [g \in DOMAIN pipes |->
                   IF Ended(pipes[g]) THEN pipes[g]
                   ELSE [pipes[g] EXCEPT !.pc = "dropped", !.tx = <<>>, !.next = 1,
                                         !.status = 0, !.entries = <<>>]]

\* fetch_and_handle_redirects(..)?, then contents.try_into()?, then the
\* test of feed.entries.is_empty().
PipeFetch(f) ==
    /\ pipes[f].pc = "fetch"
    /\ \E o \in FetchOutcomes :
         IF ~o.ok
         THEN PipeEnd(f, "err") /\ UNCHANGED sched_pc
         ELSE LET parsed == FeedTryFrom(o.body) IN
              IF parsed.res = "panic" THEN PipePanic
              ELSE IF parsed.res # "Ok"
              THEN PipeEnd(f, "err") /\ UNCHANGED sched_pc
              ELSE /\ UNCHANGED sched_pc
                   /\ pipes' = [pipes EXCEPT ![f] =
                         [@ EXCEPT !.status = IF parsed.feed.entries = <<>>
                                               THEN 0 ELSE o.status,
                                   !.entries = parsed.feed.entries,
                                   !.pc = IF parsed.feed.entries = <<>>
                                          THEN "ok" ELSE "begin"]]
    /\ UNCHANGED <<dbvars, tick, prune_rows, last_prune, conns, commands, cvars, rvars, tvars, xvars>>

\* pool.begin()
PipeBegin(f) ==
    /\ pipes[f].pc = "begin"
    /\ \/ PipeEnd(f, "err")
       \/ pipes' = [pipes EXCEPT ![f] = [@ EXCEPT !.pc = "insert"]]
    /\ UNCHANGED <<dbvars, sched_pc, tick, prune_rows, last_prune, conns, commands, cvars, rvars, tvars, xvars>>

\* One turn of the loop over feed.entries.
PipeInsert(f) ==
    /\ pipes[f].pc = "insert"
    /\ LET p == pipes[f]
           e == p.entries[p.next]
           row == [feed_id |-> f, title |-> e.title, published_at |-> e.date,
                   url |-> e.link]
       IN \/ PipeEnd(f, "err")
          \/ pipes' = [pipes EXCEPT ![f] =
                 [@ EXCEPT !.tx = EntryInsertOrIgnore(feed_entries, p.tx, row),
                           !.next = p.next + 1,
                           !.pc = IF p.next = Len(p.entries)
                                  THEN "commit" ELSE "insert"]]
    /\ UNCHANGED <<dbvars, sched_pc, tick, prune_rows, last_prune, conns, commands, cvars, rvars, tvars, xvars>>

\* tx.commit()
PipeCommit(f) ==
    /\ pipes[f].pc = "commit"
    /\ \/ PipeEnd(f, "err") /\ UNCHANGED <<feed_entries, entry_seq>>
       \/ /\ entry_seq + Len(pipes[f].tx) <= MaxEntryId
          /\ feed_entries' = EntryCommit(feed_entries, entry_seq, pipes[f].tx)
          /\ entry_seq' = entry_seq + Len(pipes[f].tx)
          /\ PipeEnd(f, "ok")
    /\ UNCHANGED <<feeds, subscriptions, feed_seq, sched_pc, tick, prune_rows,
                   last_prune, conns, commands, cvars, rvars, tvars, xvars>>

\* ======================================================================
\* check_feeds_task and check_feeds: the scheduler
\* ======================================================================
JoinAnyDone(ps) == \E f \in DOMAIN ps : Ended(ps[f])

\* join_all(futures).await returns once every future has returned.
JoinAllDone(ps) == \A f \in DOMAIN ps : Ended(ps[f])

AfterJoinPropagate(ps) ==
    IF \E f \in DOMAIN ps : ps[f].pc = "err" THEN "sleep" ELSE "prune"

\* for result in join_all(..) { if let Err(e) = result { error!(..) } }:
\* an error is logged, and check_feeds goes on to the pruning pass.
AfterJoin(ps) == "prune"

\* timer.tick() fires, then SELECT id, url FROM feeds; one check_feed
\* future per row.  A failed SELECT ends check_feeds; the loop logs it.
CheckFeedsLoad ==
    /\ sched_pc = "sleep"
    /\ tick < MaxTicks
    /\ tick' = tick + 1
    /\ \/ /\ pipes' = <<>>
          /\ sched_pc' = "sleep"
       \/ /\ pipes' = [id \in {f.id : f \in feeds} |->
                         NewPipe((CHOOSE f \in feeds : f.id = id).url, tick + 1)]
          /\ sched_pc' = "join"
    /\ UNCHANGED <<dbvars, prune_rows, last_prune, conns, commands, cvars, rvars, tvars, xvars>>

CheckFeedsJoin ==
    /\ sched_pc = "join"
    /\ JoinAllDone(pipes)
    /\ sched_pc' = AfterJoin(pipes)
    /\ UNCHANGED <<dbvars, tick, pipes, prune_rows, last_prune, conns, commands, cvars, rvars, tvars, xvars>>

\* pool.acquire(), pool.begin() and the first rows.try_next(), which runs
\* the SELECT of the orphan feeds on its own connection.
PruneSelect ==
    /\ sched_pc = "prune"
    /\ \/ /\ sched_pc' = "sleep"
          /\ last_prune' = "err"
          /\ UNCHANGED prune_rows
       \/ /\ prune_rows' = OrphanFeeds(feeds, subscriptions)
          /\ sched_pc' = "prune_commit"
          /\ UNCHANGED last_prune
    /\ UNCHANGED <<dbvars, tick, pipes, conns, commands, cvars, rvars, tvars, xvars>>

\* DELETE FROM feeds WHERE id = ?1 for each row, inside the transaction,
\* then tx.commit().  Any failure drops the transaction.
PruneCommit ==
    /\ sched_pc = "prune_commit"
    /\ sched_pc' = "sleep"
    /\ prune_rows' = {}
    /\ \/ /\ last_prune' = "err"
          /\ UNCHANGED feeds
       \/ /\ last_prune' = "ok"
          /\ feeds' = {f \in feeds : f.id \notin prune_rows}
    /\ UNCHANGED <<subscriptions, feed_entries, feed_seq, entry_seq, tick, pipes,
                   conns, commands, cvars, rvars, tvars, xvars>>

\* ======================================================================
\* The control protocol: Response and its Display
\* ======================================================================
AckUser(id) == [kind |-> "AckUser", id |-> id]
AckSubscribe == [kind |-> "AckSubscribe"]
AckUnsubscribe == [kind |-> "AckUnsubscribe"]
AckMarkRead == [kind |-> "AckMarkRead"]
StartSubscriptionList == [kind |-> "StartSubscriptionList"]
Subscription(id, url) == [kind |-> "Subscription", id |-> id, url |-> url]
StartEntryList == [kind |-> "StartEntryList"]
Entry(id, feed_id, feed_url, url, title) ==
    [kind |-> "Entry", id |-> id, feed_id |-> feed_id, feed_url |-> feed_url,
     url |-> url, title |-> title]
EndList == [kind |-> "EndList"]
ResourceNotFound(message) == [kind |-> "ResourceNotFound", message |-> message]
BadCommand(message) == [kind |-> "BadCommand", message |-> message]
NeedUser(message) == [kind |-> "NeedUser", message |-> message]
InternalError(message) == [kind |-> "InternalError", message |-> message]

\* impl fmt::Display for Response: the line as its code and what follows it.
Display(r) ==
    CASE r.kind = "AckUser" -> <<"20", r.id>>
      [] r.kind = "StartSubscriptionList" -> <<"21">>
      [] r.kind = "Subscription" -> <<"22", r.id, r.url>>
      [] r.kind = "StartEntryList" -> <<"23">>
      [] r.kind = "Entry" -> <<"24", r.id, r.feed_id, r.feed_url, r.url, r.title>>
      [] r.kind = "EndList" -> <<"25">>
      [] r.kind = "AckSubscribe" -> <<"26">>
      [] r.kind = "AckUnsubscribe" -> <<"27">>
      [] r.kind = "AckMarkRead" -> <<"28">>
      [] r.kind = "ResourceNotFound" -> <<"40", r.message>>
      [] r.kind = "BadCommand" -> <<"41", r.message>>
      [] r.kind = "NeedUser" -> <<"42", r.message>>
      [] r.kind = "InternalError" -> <<"51", r.message>>

\* handle_connection writes format!("{}\r\n", response) for each response.
Write(c, responses) ==
    sent' = [conn |-> c, lines |-> [i \in DOMAIN responses |-> Display(responses[i])]]

NothingSent == [conn |-> 0, lines |-> <<>>]

WriteErrorTwice(c) ==
    Write(c, <<InternalError("store error"), InternalError("store error")>>)

\* Err(e) of consume_command: Response::InternalError(e.to_string()).
WriteError(c) == Write(c, <<InternalError("store error")>>)

\* The same for the error of a statement the store rejects for a UNIQUE
\* constraint: e.to_string() names the constraint.
WriteUniqueError(c) == Write(c, <<InternalError("UNIQUE constraint failed")>>)

\* ======================================================================
\* Client commands that write feeds and subscriptions
\* ======================================================================
Idle == [pc |-> "idle", url |-> "", feed_id |-> 0]

NoUser == [some |-> FALSE, id |-> 0]
User(id) == [some |-> TRUE, id |-> id]

\* The id of the user a connection has selected.
UserOf(c) == conn_user[c].id

WriteNothing(c) == UNCHANGED sent

\* ConnectedUser::NoUser => return Ok(vec![Response::NeedUser(..)])
WriteNeedUser(c) == Write(c, <<NeedUser("must select a user")>>)

\* Connection::subscribe: SELECT id FROM feeds WHERE url = ?1.  Err(_)
\* (no row, or a failed query) leads to the INSERT INTO feeds.
SubscribeLookup(c, url) ==
    /\ conns[c].pc = "idle"
    /\ commands < MaxCommands
    /\ commands' = commands + 1
    /\ IF ~conn_user[c].some
       THEN WriteNeedUser(c) /\ UNCHANGED conns
       ELSE /\ UNCHANGED sent
            /\ \/ \E f \in feeds :
                    /\ f.url = url
                    /\ conns' = [conns EXCEPT ![c] =
                          [pc |-> "insert_subscription", url |-> "", feed_id |-> f.id]]
               \/ conns' = [conns EXCEPT ![c] =
                      [pc |-> "insert_feed", url |-> url, feed_id |-> 0]]
    /\ UNCHANGED <<dbvars, schedvars, uvars, rvars, tvars, xvars>>

\* INSERT INTO feeds (url) VALUES (?1), then last_insert_rowid().
SubscribeInsertFeed(c) ==
    /\ conns[c].pc = "insert_feed"
    /\ LET ins == FeedInsert(feeds, feed_seq, conns[c].url) IN
         \/ /\ conns' = [conns EXCEPT ![c] = Idle]
            /\ WriteError(c)
            /\ UNCHANGED <<feeds, feed_seq>>
         \/ /\ ~ins.ok
            /\ conns' = [conns EXCEPT ![c] = Idle]
            /\ WriteUniqueError(c)
            /\ UNCHANGED <<feeds, feed_seq>>
         \/ /\ ins.ok
            /\ feed_seq < MaxFeedId
            /\ feeds' = ins.table
            /\ feed_seq' = ins.id
            /\ conns' = [conns EXCEPT ![c] =
                  [pc |-> "insert_subscription", url |-> "", feed_id |-> ins.id]]
            /\ UNCHANGED sent
    /\ UNCHANGED <<subscriptions, feed_entries, entry_seq, schedvars, commands,
                   uvars, rvars, tvars, xvars>>

SubscriptionInsert(table, row) ==
    IF row \in table
    THEN [ok |-> FALSE, table |-> table]
    ELSE [ok |-> TRUE, table |-> table \cup {row}]

\* INSERT OR IGNORE INTO subscriptions (user_id, feed_id) VALUES (?1, ?2):
\* the pair is UNIQUE, and a row that is there is left as it is.
SubscriptionInsertOrIgnore(table, row) ==
    [ok |-> TRUE, table |-> table \cup {row}]

\* The last statement of Connection::subscribe, then Ok(vec![AckSubscribe]).
SubscribeInsertSubscription(c) ==
    /\ conns[c].pc = "insert_subscription"
    /\ conns' = [conns EXCEPT ![c] = Idle]
    /\ LET ins == SubscriptionInsertOrIgnore(subscriptions,
                       [user_id |-> UserOf(c), feed_id |-> conns[c].feed_id]) IN
         \/ WriteError(c) /\ UNCHANGED subscriptions
         \/ /\ ~ins.ok
            /\ WriteUniqueError(c)
            /\ UNCHANGED subscriptions
         \/ /\ ins.ok
            /\ subscriptions' = ins.table
            /\ Write(c, <<AckSubscribe>>)
    /\ UNCHANGED <<feeds, feed_entries, feed_seq, entry_seq, schedvars, commands,
                   uvars, rvars, tvars, xvars>>

DeleteSubscriptionsOfFeed(table, user_id, feed_id) ==
    {row \in table : row.feed_id # feed_id}

\* DELETE FROM subscriptions WHERE user_id = ?1 AND feed_id = ?2
DeleteSubscription(table, user_id, feed_id) ==
    {row \in table : ~(row.user_id = user_id /\ row.feed_id = feed_id)}

\* Connection::unsubscribe: the DELETE, then rows_affected().
Unsubscribe(c, feed_id) ==
    /\ conns[c].pc = "idle"
    /\ commands < MaxCommands
    /\ commands' = commands + 1
    /\ LET deleted == DeleteSubscription(subscriptions, UserOf(c), feed_id)
           affected_rows == Cardinality(subscriptions \ deleted)
       IN
       IF ~conn_user[c].some
       THEN WriteNeedUser(c) /\ UNCHANGED subscriptions
       ELSE \/ WriteError(c) /\ UNCHANGED subscriptions
            \/ /\ subscriptions' = deleted
               /\ IF affected_rows > 0
                  THEN Write(c, <<AckUnsubscribe>>)
                  ELSE Write(c, <<ResourceNotFound(<<"no subscription with feed ID", feed_id, "exists">>)>>)
    /\ UNCHANGED <<feeds, feed_entries, feed_seq, entry_seq, schedvars, conns,
                   uvars, rvars, tvars, xvars>>

\* ======================================================================
\* The other client commands
\* ======================================================================
\* INSERT INTO users (username) VALUES (?1): users.username is UNIQUE.
UserInsert(table, seq, username) ==
    IF \E u \in table : u.username = username
    THEN [ok |-> FALSE, id |-> 0, table |-> table]
    ELSE [ok |-> TRUE, id |-> seq + 1,
          table |-> table \cup {[id |-> seq + 1, username |-> username]}]

\* INSERT INTO views (user_id, feed_entry_id) VALUES (?1, ?2): the pair is
\* UNIQUE, and no other constraint is declared on views.
ViewInsert(table, row) ==
    IF row \in table
    THEN [ok |-> FALSE, table |-> table]
    ELSE [ok |-> TRUE, table |-> table \cup {row}]

\* LEFT JOIN feeds ON .. = feeds.id: the url of the feed, NULL without one.
FeedUrlOf(feed_id) ==
    IF \E f \in feeds : f.id = feed_id
    THEN (CHOOSE f \in feeds : f.id = feed_id).url
    ELSE "NULL"

\* The rows of the SELECT of list_subscriptions.
SubscriptionRows(user_id) ==
    {Subscription(sub.feed_id, FeedUrlOf(sub.feed_id)) :
        sub \in {x \in subscriptions : x.user_id = user_id}}

UnreadRowsWithViewed(user_id) ==
    {Entry(e.id, e.feed_id, FeedUrlOf(e.feed_id), e.url, e.title) :
        e \in {x \in feed_entries :
                 x.feed_id \in {sub.feed_id :
                                  sub \in {y \in subscriptions : y.user_id = user_id}}}}

\* The rows of the SELECT of list_unread.
UnreadRows(user_id) ==
    {Entry(e.id, e.feed_id, FeedUrlOf(e.feed_id), e.url, e.title) :
        e \in {x \in feed_entries :
                 /\ x.id \notin {v.feed_entry_id : v \in {w \in views : w.user_id = user_id}}
                 /\ x.feed_id \in {sub.feed_id :
                                     sub \in {y \in subscriptions : y.user_id = user_id}}}}

\* The rows of a SELECT without ORDER BY come in an order of the store's.
Orders(S) ==
    {q \in [1..Cardinality(S) -> S] : \A i, j \in DOMAIN q : q[i] = q[j] => i = j}

\* Connection::select_user: SELECT id FROM users WHERE username = ?1.
\* Err(_) leads to the INSERT INTO users: the query gave no row
\* ("insert_user"), or it failed although there is one ("insert_user_err").
SelectUserLookup(c, username) ==
    /\ conns[c].pc = "idle"
    /\ \/ \E u \in users :
            /\ u.username = username
            /\ conn_user' = [conn_user EXCEPT ![c] = User(u.id)]
            /\ Write(c, <<AckUser(u.id)>>)
            /\ UNCHANGED <<conns, pending>>
       \/ /\ conns' = [conns EXCEPT ![c] =
                 [pc |-> IF \E u \in users : u.username = username
                         THEN "insert_user_err" ELSE "insert_user",
                  url |-> "", feed_id |-> 0]]
          /\ pending' = [pending EXCEPT ![c] = username]
          /\ UNCHANGED <<conn_user, sent>>
    /\ UNCHANGED <<users, views, user_seq, dbvars, schedvars, commands, rvars, tvars, xvars>>

\* INSERT INTO users, last_insert_rowid(), then self.user = User {..}.
SelectUserInsert(c) ==
    /\ conns[c].pc \in {"insert_user", "insert_user_err"}
    /\ conns' = [conns EXCEPT ![c] = Idle]
    /\ pending' = [pending EXCEPT ![c] = ""]
    /\ LET ins == UserInsert(users, user_seq, pending[c]) IN
         \/ WriteError(c) /\ UNCHANGED <<users, user_seq, conn_user>>
         \/ /\ ~ins.ok
            /\ WriteUniqueError(c)
            /\ UNCHANGED <<users, user_seq, conn_user>>
         \/ /\ ins.ok
            /\ users' = ins.table
            /\ user_seq' = ins.id
            /\ conn_user' = [conn_user EXCEPT ![c] = User(ins.id)]
            /\ Write(c, <<AckUser(ins.id)>>)
    /\ UNCHANGED <<views, dbvars, schedvars, commands, rvars, tvars, xvars>>

\* Connection::list_subscriptions
ListSubscriptions(c) ==
    /\ conns[c].pc = "idle"
    /\ IF ~conn_user[c].some
       THEN WriteNeedUser(c)
       ELSE \/ WriteError(c)
            \/ \E rows \in Orders(SubscriptionRows(UserOf(c))) :
                 Write(c, <<StartSubscriptionList>> \o rows \o <<EndList>>)
    /\ UNCHANGED <<uvars, dbvars, schedvars, conns, commands, rvars, tvars, xvars>>

\* Connection::list_unread
ListUnread(c) ==
    /\ conns[c].pc = "idle"
    /\ IF ~conn_user[c].some
       THEN WriteNeedUser(c)
       ELSE \/ WriteError(c)
            \/ \E rows \in Orders(UnreadRows(UserOf(c))) :
                 Write(c, <<StartEntryList>> \o rows \o <<EndList>>)
    /\ UNCHANGED <<uvars, dbvars, schedvars, conns, commands, rvars, tvars, xvars>>

\* Connection::mark_read
MarkRead(c, feed_entry_id) ==
    /\ conns[c].pc = "idle"
    /\ LET ins == ViewInsert(views, [user_id |-> UserOf(c),
                                     feed_entry_id |-> feed_entry_id]) IN
       IF ~conn_user[c].some
       THEN WriteNeedUser(c) /\ UNCHANGED views
       ELSE \/ WriteError(c) /\ UNCHANGED views
            \/ /\ ~ins.ok
               /\ WriteUniqueError(c)
               /\ UNCHANGED views
            \/ /\ ins.ok
               /\ views' = ins.table
               /\ Write(c, <<AckMarkRead>>)
    /\ UNCHANGED <<users, user_seq, conn_user, pending, dbvars, schedvars, conns,
                   commands, rvars, tvars, xvars>>

\* ======================================================================
\* The control protocol: Command::from_str
\* ======================================================================
\* The command words, the number of arguments check_arguments is given, the
\* name of the argument, and whether it is parsed as an i64.
CommandWords ==
    { [word |-> "USER", kind |-> "User", expected |-> 1, argument |-> "username", int |-> FALSE],
      [word |-> "LISTSUBSCRIPTIONS", kind |-> "ListSubscriptions", expected |-> 0, argument |-> "", int |-> FALSE],
      [word |-> "SUBSCRIBE", kind |-> "Subscribe", expected |-> 1, argument |-> "url", int |-> FALSE],
      [word |-> "UNSUBSCRIBE", kind |-> "Unsubscribe", expected |-> 1, argument |-> "id", int |-> TRUE],
      [word |-> "LISTUNREAD", kind |-> "ListUnread", expected |-> 0, argument |-> "", int |-> FALSE],
      [word |-> "MARKREAD", kind |-> "MarkRead", expected |-> 1, argument |-> "id", int |-> TRUE] }

\* str::parse::<i64>, on the texts that occur.
IntTexts == {[text |-> "1", value |-> 1], [text |-> "2", value |-> 2], [text |-> "9", value |-> 9]}

ParseInt(text) ==
    IF \E t \in IntTexts : t.text = text
    THEN [ok |-> TRUE, value |-> (CHOOSE t \in IntTexts : t.text = text).value]
    ELSE [ok |-> FALSE, value |-> 0]

ParseErr(message) == [ok |-> FALSE, kind |-> "", arg |-> "", err |-> message]
ParseOk(kind, arg) == [ok |-> TRUE, kind |-> kind, arg |-> arg, err |-> <<>>]

ArgumentsUnchecked(parts, expected) == FALSE

\* check_arguments fails: parts.len() > expected + 1
TooManyArguments(parts, expected) == Len(parts) > expected + 1

\* Command::from_str(value), on parts = value.split(' ').collect().
CommandFromStr(parts) ==
    IF Len(parts) < 1 THEN ParseErr(<<"empty command">>)
    ELSE IF ~\E w \in CommandWords : w.word = parts[1]
    THEN ParseErr(<<"unknown command", parts[1]>>)
    ELSE LET w == CHOOSE x \in CommandWords : x.word = parts[1] IN
         IF TooManyArguments(parts, w.expected)
         THEN ParseErr(<<"too many arguments", w.expected, Len(parts) - 1>>)
         ELSE IF w.expected = 0 THEN ParseOk(w.kind, "")
         ELSE IF Len(parts) < 2 THEN ParseErr(<<"missing argument", w.argument>>)
         ELSE IF ~w.int THEN ParseOk(w.kind, parts[2])
         ELSE IF ~ParseInt(parts[2]).ok
         THEN ParseErr(<<"invalid integer value", parts[2], w.argument>>)
         ELSE ParseOk(w.kind, ParseInt(parts[2]).value)

\* The lines clients send, each as the parts split(' ') makes of it.
ClientLines ==
    { <<"USER", "alice">>, <<"USER", "bob">>, <<"USER">>,
      <<"LISTSUBSCRIPTIONS">>,
      <<"SUBSCRIBE", "gemini://a/">>, <<"SUBSCRIBE", "gemini://b/">>,
      <<"UNSUBSCRIBE", "1">>, <<"UNSUBSCRIBE", "x">>,
      <<"LISTUNREAD">>, <<"LISTUNREAD", "">>,
      <<"MARKREAD", "1">>,
      <<"FOO">> }

\* The lines of a client that marks entries read, one of them an entry
\* that does not exist.
MarkReadLines ==
    { <<"USER", "alice">>, <<"USER", "bob">>, <<"LISTUNREAD">>,
      <<"MARKREAD", "1">>, <<"MARKREAD", "2">>, <<"MARKREAD", "9">> }

\* Connection::consume_command
ConsumeCommand(c, command) ==
    CASE command.kind = "User" -> SelectUserLookup(c, command.arg)
      [] command.kind = "ListSubscriptions" -> ListSubscriptions(c)
      [] command.kind = "Subscribe" -> SubscribeLookup(c, command.arg)
      [] command.kind = "Unsubscribe" -> Unsubscribe(c, command.arg)
      [] command.kind = "ListUnread" -> ListUnread(c)
      [] command.kind = "MarkRead" -> MarkRead(c, command.arg)

\* handle_connection: one turn of the loop over the lines of the client.
HandleLine(c, line) ==
    /\ conns[c].pc = "idle"
    /\ LET parsed == CommandFromStr(line) IN
       IF parsed.ok
       THEN ConsumeCommand(c, parsed)
       ELSE /\ Write(c, <<BadCommand(parsed.err)>>)
            /\ UNCHANGED <<uvars, dbvars, schedvars, conns, commands, rvars, tvars, xvars>>

\* ======================================================================
\* Specifications
\* ======================================================================
RedirectIdle ==
    /\ server = <<>>
    /\ full_url = "gemini://a/"
    /\ url_to_fetch = "gemini://a/"
    /\ attempts = 0
    /\ fetches = 0
    /\ r_pc = "idle"
    /\ r_result = "None"

TlsIdle ==
    /\ validation = "None"
    /\ fingerprint = [digest |-> Sha256(1), not_after |-> 0]
    /\ presented_certs = <<>>
    /\ now = 0
    /\ webpki_ok = FALSE
    /\ verdict = "idle"

StoreIdle ==
    /\ feeds = {}
    /\ subscriptions = {}
    /\ feed_entries = {}
    /\ feed_seq = 0
    /\ entry_seq = 0
    /\ sched_pc = "idle"
    /\ tick = 0
    /\ pipes = <<>>
    /\ prune_rows = {}
    /\ last_prune = "none"
    /\ conns = <<>>
    /\ commands = 0
    /\ users = {}
    /\ views = {}
    /\ user_seq = 0
    /\ conn_user = <<>>
    /\ pending = <<>>
    /\ sent = NothingSent

ParseIdle ==
    /\ p_body = NoBody
    /\ p_result = [res |-> "idle", feed |-> ScanStart]

DecodeIdle ==
    /\ d_response = [utf8 |-> TRUE, has_header |-> FALSE, header |-> <<>>, rest |-> <<>>]
    /\ d_result = [res |-> "idle", page |-> NoPage]

\* A call of fetch_page_handle_redirects(full_url) against any script.
InitRedirect ==
    /\ server \in [1..MaxChain -> Responses]
    /\ full_url \in {"gemini://a/", "https://a/"}
    /\ url_to_fetch = full_url
    /\ attempts = 0
    /\ fetches = 0
    /\ r_pc = "loop"
    /\ r_result = "None"
    /\ TlsIdle
    /\ StoreIdle
    /\ ParseIdle
    /\ DecodeIdle

NextRedirect == LoopFetch \/ LoopExit

SpecRedirect == InitRedirect /\ [][NextRedirect]_vars

\* One handshake: any policy, any pin, any chain, any instant.
InitTls ==
    /\ validation \in {"None", "SelfSigned", "Chained"}
    /\ fingerprint \in [digest : {Sha256(d) : d \in Ders}, not_after : Times]
    /\ \E n \in 0..MaxCertChain, leaf \in Certs :
         presented_certs = [i \in 1..n |-> IF i = 1 THEN leaf ELSE IssuerCert]
    /\ now \in Times
    /\ webpki_ok \in BOOLEAN
    /\ verdict = "pending"
    /\ RedirectIdle
    /\ StoreIdle
    /\ ParseIdle
    /\ DecodeIdle

NextTls == VerifyOpportunistic \/ VerifyPinned \/ VerifyChained

SpecTls == InitTls /\ [][NextTls]_vars

\* One call of Feed::try_from on any page body.
InitParse ==
    /\ p_body \in PageBodies
    /\ p_result = [res |-> "pending", feed |-> ScanStart]
    /\ DecodeIdle
    /\ RedirectIdle
    /\ TlsIdle
    /\ StoreIdle

NextParse == ParseFeed

SpecParse == InitParse /\ [][NextParse]_vars

\* The decoding of any response.
InitDecode ==
    /\ d_response \in RawResponses
    /\ d_result = [res |-> "pending", page |-> NoPage]
    /\ ParseIdle
    /\ RedirectIdle
    /\ TlsIdle
    /\ StoreIdle

NextDecode == Decode

SpecDecode == InitDecode /\ [][NextDecode]_vars

\* The service between two ticks, started on the database an earlier run
\* left: one user, subscribed to one feed with two entries.  No connection
\* has selected a user.
InitClient ==
    /\ users = {[id |-> 1, username |-> "alice"]}
    /\ user_seq = 1
    /\ feeds = {[id |-> 1, url |-> "gemini://a/"]}
    /\ feed_seq = 1
    /\ feed_entries =
         {[id |-> 1, feed_id |-> 1, title |-> "Post", published_at |-> <<2020, 1, 1>>,
           url |-> "gemini://x/1"],
          [id |-> 2, feed_id |-> 1, title |-> "Other", published_at |-> <<2020, 2, 29>>,
           url |-> "gemini://x/2"]}
    /\ entry_seq = 2
    /\ subscriptions = {[user_id |-> 1, feed_id |-> 1]}
    /\ views = {}
    /\ conns = [c \in Conns |-> Idle]
    /\ conn_user = [c \in Conns |-> NoUser]
    /\ pending = [c \in Conns |-> ""]
    /\ sent = NothingSent
    /\ commands = 0
    /\ sched_pc = "sleep"
    /\ tick = 0
    /\ pipes = <<>>
    /\ prune_rows = {}
    /\ last_prune = "none"
    /\ RedirectIdle
    /\ TlsIdle
    /\ ParseIdle
    /\ DecodeIdle

NextClient ==
    \/ \E c \in Conns, line \in ClientLines : HandleLine(c, line)
    \/ \E c \in Conns : SelectUserInsert(c)
    \/ \E c \in Conns : SubscribeInsertFeed(c)
    \/ \E c \in Conns : SubscribeInsertSubscription(c)

SpecClient == InitClient /\ [][NextClient]_vars

NextMarkRead ==
    \/ \E c \in Conns, line \in MarkReadLines : HandleLine(c, line)
    \/ \E c \in Conns : SelectUserInsert(c)

SpecMarkRead == InitClient /\ [][NextMarkRead]_vars

\* The service after start-up on an empty database: the scheduler task
\* waits for its timer, the connections have selected their users.
Init ==
    /\ feeds = {}
    /\ subscriptions = {}
    /\ feed_entries = {}
    /\ feed_seq = 0
    /\ entry_seq = 0
    /\ sched_pc = "sleep"
    /\ tick = 0
    /\ pipes = <<>>
    /\ prune_rows = {}
    /\ last_prune = "none"
    /\ conns = [c \in Conns |-> Idle]
    /\ commands = 0
    /\ users = {[id |-> c, username |-> Usernames[c]] : c \in Conns}
    /\ views = {}
    /\ user_seq = NumConns
    /\ conn_user = [c \in Conns |-> User(c)]
    /\ pending = [c \in Conns |-> ""]
    /\ sent = NothingSent
    /\ RedirectIdle
    /\ TlsIdle
    /\ ParseIdle
    /\ DecodeIdle

Next ==
    \/ CheckFeedsLoad
    \/ CheckFeedsJoin
    \/ PruneSelect
    \/ PruneCommit
    \/ \E f \in DOMAIN pipes : PipeFetch(f)
    \/ \E f \in DOMAIN pipes : PipeBegin(f)
    \/ \E f \in DOMAIN pipes : PipeInsert(f)
    \/ \E f \in DOMAIN pipes : PipeCommit(f)
    \/ \E c \in Conns, url \in GeminiUrls : SubscribeLookup(c, url)
    \/ \E c \in Conns : SubscribeInsertFeed(c)
    \/ \E c \in Conns : SubscribeInsertSubscription(c)
    \/ \E c \in Conns, id \in 1..MaxFeedId : Unsubscribe(c, id)

Spec == Init /\ [][Next]_vars

\* The pipeline of feed f takes its next step: the runtime polls a future
\* that can go on, and a statement sent to the store returns.
PipeStep(f) ==
    /\ f \in DOMAIN pipes
    /\ PipeFetch(f) \/ PipeBegin(f) \/ PipeInsert(f) \/ PipeCommit(f)

\* The server of feed 1 may leave a fetch without an answer for ever (no
\* timeout is set on connect, handshake or read); the server of feed 2
\* answers.  Statements sent to the store return.
SpecStall ==
    /\ Init
    /\ [][Next]_vars
    /\ WF_vars(PipeStep(2))
    /\ WF_vars(1 \in DOMAIN pipes /\ (PipeBegin(1) \/ PipeInsert(1) \/ PipeCommit(1)))

\* ======================================================================
\* Properties
\* ======================================================================
CallEnded == r_pc \in {"returned", "failed"}

\* The URL the i-th connection is opened for, when every response before
\* it is followed.
UrlAt(i) == IF i = 1 THEN full_url ELSE server[i - 1].meta

\* The first k responses of the script are redirects (30 or 31) to URLs
\* the engine can fetch, and the call itself names such a URL.
RedirectChain(k) ==
    /\ Scheme(full_url) = "gemini"
    /\ \A i \in 1..k :
         /\ server[i].kind = "page"
         /\ server[i].status \in {30, 31}
         /\ Scheme(server[i].meta) = "gemini"

NonRedirect(resp) == resp.kind = "page" /\ resp.status \notin {30, 31}

PageOf(i) ==
    [url |-> UrlAt(i), status |-> server[i].status, meta |-> server[i].meta,
     body |-> server[i].body]

ReturnsResponse(k) ==
    (RedirectChain(k) /\ NonRedirect(server[k + 1]))
        => (r_pc = "returned" /\ r_result = PageOf(k + 1))

\* C1 as claimed: for every k in 0..5, k redirects followed by a
\* non-redirect response make the call return that response.
C1_ReturnsAfterUpTo5 == CallEnded => \A k \in 0..5 : ReturnsResponse(k)

\* C1 amended: for every k in 0..4, k redirects followed by a non-redirect
\* response make the call return that response as its Page; after 5
\* redirects the call fails with the redirect-cap error and the response
\* that follows them is never fetched.
C1_ReturnsAfterUpTo4 ==
    CallEnded =>
        /\ \A k \in 0..4 : ReturnsResponse(k)
        /\ RedirectChain(5) =>
             (r_pc = "failed" /\ r_result = "RedirectCap" /\ fetches = 5)

C1_Witness ==
    /\ r_pc = "returned"
    /\ RedirectChain(4)
    /\ attempts = 4
    /\ r_result = PageOf(5)

\* C2: a chain of 6 or more redirects fails with the redirect-cap error,
\* and no call opens more than 5 connections or counts more than 5
\* attempts, so the loop ends.
C2_RedirectCap ==
    /\ fetches <= 5
    /\ attempts <= 5
    /\ fetches <= attempts + 1
    /\ (CallEnded /\ RedirectChain(6)) =>
         (r_pc = "failed" /\ r_result = "RedirectCap")

C2_Witness ==
    /\ RedirectChain(6)
    /\ r_pc = "failed"
    /\ r_result = "RedirectCap"
    /\ fetches = 5

Verified == verdict \notin {"pending", "idle"}

SingleCert == Len(presented_certs) = 1

SelfIssuedTimeValid(cert, t) ==
    /\ cert.wellformed
    /\ cert.self_issued
    /\ cert.not_before <= t
    /\ t <= cert.not_after

\* C3: pinned policy, one certificate, now before the pin's not_after: the
\* certificate is accepted iff its SHA-256 digest equals the pinned digest,
\* also when it is self-issued and time-valid.
C3_PinAuthoritativeBeforeExpiry ==
    (Verified /\ validation = "SelfSigned" /\ SingleCert
        /\ now < fingerprint.not_after
        /\ SelfIssuedTimeValid(presented_certs[1], now))
    => (verdict = "Ok" <=> Sha256(presented_certs[1].der) = fingerprint.digest)

\* C4: pinned policy, one certificate, now after the pin's not_after: a
\* self-issued, time-valid certificate is accepted whatever its digest.
C4_SelfSignedAfterPinExpiry ==
    (Verified /\ validation = "SelfSigned" /\ SingleCert
        /\ now > fingerprint.not_after
        /\ SelfIssuedTimeValid(presented_certs[1], now))
    => verdict = "Ok"

\* C5: opportunistic policy: one certificate is accepted iff it is
\* self-issued and time-valid, whatever chain validation would say; longer
\* chains are accepted iff chain validation accepts them, under the
\* opportunistic and under the pinned policy alike.
C5_Opportunistic ==
    Verified =>
        /\ (validation = "None" /\ SingleCert) =>
             (verdict = "Ok" <=> SelfIssuedTimeValid(presented_certs[1], now))
        /\ (validation \in {"None", "SelfSigned"} /\ Len(presented_certs) > 1) =>
             (verdict = "Ok" <=> webpki_ok)

C5_Witness ==
    /\ Verified
    /\ validation = "None"
    /\ SingleCert
    /\ ~SelfIssuedTimeValid(presented_certs[1], now)
    /\ webpki_ok
    /\ verdict # "Ok"

HasRow(f, link) == \E r \in feed_entries : r.feed_id = f /\ r.url = link

\* C6: feed_entries holds at most one row per (feed_id, url), and a
\* transaction never holds a row whose key is stored or already in it: an
\* entry that is present is skipped, and the transaction goes on.
C6_EntryUnique ==
    /\ \A r1, r2 \in feed_entries :
         (r1.feed_id = r2.feed_id /\ r1.url = r2.url) => r1 = r2
    /\ \A r1, r2 \in feed_entries : r1.id = r2.id => r1 = r2
    /\ \A f \in DOMAIN pipes :
         LET tx == pipes[f].tx IN
           /\ \A i \in DOMAIN tx : ~HasRow(tx[i].feed_id, tx[i].url)
           /\ \A i, j \in DOMAIN tx : tx[i].url = tx[j].url => i = j

\* The second pass over a body that repeats a link: every entry is known,
\* nothing is left to insert, and the pipeline has reached its commit.
C6_Witness ==
    \E f \in DOMAIN pipes :
        /\ pipes[f].tick = 2
        /\ pipes[f].pc = "commit"
        /\ Len(pipes[f].entries) = 3
        /\ pipes[f].tx = <<>>
        /\ Cardinality({r \in feed_entries : r.feed_id = f}) = 2

Subscribed(id, subs) == \E s \in subs : s.feed_id = id

\* C7, its safety half: a pruning pass that completes deletes no feed that
\* has a subscription at that moment.  (The other half, that no feed
\* without a subscription is left, is lost to the same interleavings.)
C7_PruneKeepsSubscribed ==
    [][(sched_pc = "prune_commit" /\ sched_pc' = "sleep" /\ last_prune' = "ok")
        => \A f \in feeds : Subscribed(f.id, subscriptions) => f \in feeds']_vars

Returned(p) == p.pc \in {"ok", "err"}

\* C8: outside the join of a tick no pipeline is running (pruning starts
\* only when each one has returned, the next tick only after pruning), each
\* pipeline belongs to the current tick, and feed_entries is written only
\* by a pipeline of the current tick while the scheduler is in its join.
C8_Barrier ==
    /\ [](/\ sched_pc \in {"prune", "prune_commit", "sleep"} =>
               \A f \in DOMAIN pipes : Returned(pipes[f])
          /\ \A f \in DOMAIN pipes : pipes[f].tick = tick)
    /\ [][feed_entries' # feed_entries =>
            /\ sched_pc = "join"
            /\ sched_pc' = "join"
            /\ \E f \in DOMAIN pipes :
                 /\ pipes[f].pc = "commit"
                 /\ pipes[f].tick = tick
                 /\ pipes'[f].pc = "ok"]_vars

C8_Witness ==
    /\ sched_pc = "prune_commit"
    /\ tick = 2
    /\ Cardinality(DOMAIN pipes) = 2
    /\ \E f \in DOMAIN pipes : pipes[f].pc = "ok" /\ pipes[f].entries # <<>>

EntriesStored(f, p, table) ==
    \A i \in DOMAIN p.entries :
        \E r \in table : r.feed_id = f /\ r.url = p.entries[i].link

\* C9: when every pipeline of a tick has returned, some of them with an
\* error, the scheduler goes on to the pruning pass, and the entries of
\* every pipeline that returned Ok are stored.
C9_FailureIsolation ==
    [][(/\ sched_pc = "join"
        /\ sched_pc' # "join"
        /\ \A f \in DOMAIN pipes : Returned(pipes[f]))
        => /\ sched_pc' = "prune"
           /\ \A f \in DOMAIN pipes :
                pipes[f].pc = "ok" => EntriesStored(f, pipes[f], feed_entries')]_vars

C9_Witness ==
    /\ sched_pc = "prune"
    /\ \E a, b \in DOMAIN pipes :
         /\ pipes[a].pc = "err"
         /\ pipes[b].pc = "ok"
         /\ pipes[b].entries # <<>>
         /\ EntriesStored(b, pipes[b], feed_entries)

\* C10: the scheduler loop never terminates.
C10_SchedulerNeverEnds == sched_pc # "dead"

\* ----------------------------------------------------------------------
\* Feed document parser
\* ----------------------------------------------------------------------
Parsed == p_result.res \notin {"pending", "idle"}

\* Indices (from 1) of the lines of the body that start with "# ".
TitleIdxs == {i \in 1..Len(p_body.lines) : p_body.lines[i].prefix = "# "}

MinOf(S) == CHOOSE x \in S : \A y \in S : x <= y

\* An entry line that matches the pattern and carries a calendar date.
WellFormedEntry(line) ==
    /\ line.prefix = "=> "
    /\ line.cap.matched
    /\ line.cap.date[2] \in 1..12
    /\ line.cap.date[3] \in 1..DaysInMonth(line.cap.date[1], line.cap.date[2])

RECURSIVE CapturesOf(_)
CapturesOf(ls) ==
    IF ls = <<>> THEN <<>>
    ELSE <<Head(ls).cap>> \o CapturesOf(Tail(ls))

WellFormedEntries == CapturesOf(SelectSeq(p_body.lines, WellFormedEntry))

\* C11: no entry line aborts the parse: a body with a title yields a Feed,
\* whose entries are the well-formed entry lines of the body, in body order.
C11_EntryLineRecovery ==
    (Parsed /\ p_body.some /\ TitleIdxs # {}) =>
        /\ p_result.res = "Ok"
        /\ p_result.feed.entries = WellFormedEntries

\* C12: the title is the text of the first line that starts with "# ", and
\* the title line index is the index of that line.
C12_FirstTitle ==
    (Parsed /\ p_result.res = "Ok") =>
        /\ TitleIdxs # {}
        /\ p_result.feed.title = [some |-> TRUE, v |-> p_body.lines[MinOf(TitleIdxs)].text]
        /\ p_result.feed.title_line = [some |-> TRUE, v |-> MinOf(TitleIdxs) - 1]

\* A body with two title lines of different text, parsed.
C12_Witness ==
    /\ Parsed
    /\ p_result.res = "Ok"
    /\ Cardinality({p_body.lines[i].text : i \in TitleIdxs}) = 2
    /\ p_result.feed.title.v = "Again"

\* C13: the subtitle is set iff the line after the title line starts with
\* "## ", and then it is the text of that line; any other "## " line is
\* ignored, and for no body does the index comparison underflow.
C13_SubtitleAdjacency ==
    Parsed =>
        /\ ~p_result.feed.underflow
        /\ p_result.res = "Ok" =>
             LET n == MinOf(TitleIdxs) + 1
                 adjacent == n <= Len(p_body.lines) /\ p_body.lines[n].prefix = "## "
             IN /\ p_result.feed.subtitle.some <=> adjacent
                /\ adjacent => p_result.feed.subtitle.v = p_body.lines[n].text

\* A "## " line before the title is ignored, the one after it is taken.
C13_Witness ==
    /\ Parsed
    /\ p_result.res = "Ok"
    /\ Len(p_body.lines) = 3
    /\ p_body.lines[1].prefix = "## "
    /\ p_body.lines[2].prefix = "# "
    /\ p_body.lines[3].prefix = "## "
    /\ p_result.feed.subtitle = [some |-> TRUE, v |-> p_body.lines[3].text]

\* C14: EmptyPage iff the body is absent, MissingTitle iff the body is
\* present and has no line starting with "# ", success in every other case.
C14_ParserOutcomes ==
    Parsed =>
        /\ p_result.res = "EmptyPage" <=> ~p_body.some
        /\ p_result.res = "MissingTitle" <=> (p_body.some /\ TitleIdxs = {})
        /\ p_result.res = "Ok" <=> (p_body.some /\ TitleIdxs # {})

\* ----------------------------------------------------------------------
\* Response codec
\* ----------------------------------------------------------------------
Decoded == d_result.res \notin {"pending", "idle"}

NonEmptyPart(t) == t # <<>>

\* The tokens of the status line: its maximal runs of non-space characters.
Tokens == SelectSeq(Split(d_response.header), NonEmptyPart)

ValidCode == Tokens # <<>> /\ \E e \in StatusTable : e.text = Tokens[1]

DecodeOutcome ==
    /\ ~d_response.has_header => d_result.res = "MissingHeader"
    /\ (d_response.has_header /\ ~ValidCode) => d_result.res = "InvalidStatus"
    /\ (d_response.has_header /\ ValidCode /\ Len(Tokens) = 1) =>
         d_result.res = "MissingMeta"
    /\ (d_response.has_header /\ ValidCode /\ Len(Tokens) >= 2) =>
         d_result.res = "Ok"

\* C15 as claimed: an empty response yields MissingHeader, a status line
\* whose first token is no listed code InvalidStatus, one with a code and no
\* meta token MissingMeta, and every other response decodes.
C15_DecodeOutcomes == Decoded => DecodeOutcome

\* C15 amended: the same, for a response that is valid UTF-8; any other
\* response fails before its status line is looked at.
C15_DecodeOutcomesUtf8 ==
    Decoded =>
        /\ d_response.utf8 => DecodeOutcome
        /\ ~d_response.utf8 => d_result.res = "FromUtf8Error"

\* " 20 m" followed by a body: decoded to status 20, meta "m".
C15_Witness ==
    /\ Decoded
    /\ d_response.utf8
    /\ d_response.header = <<" ", "2", "0", " ", "m">>
    /\ d_response.rest = <<"# Hello">>
    /\ d_result.res = "Ok"
    /\ d_result.page.header = [status |-> 20, meta |-> <<"m">>]
    /\ d_result.page.body.some

\* A status line of the form <code> <meta-text>: one of the 18 codes, one
\* space, and a meta text that neither begins nor ends with a space.
WellFormedStatusLine(s) ==
    /\ Len(s) >= 4
    /\ StatusFromStr(SubSeq(s, 1, 2)).ok
    /\ s[3] = " "
    /\ s[4] # " "
    /\ s[Len(s)] # " "

\* The text after the code and its separating space.
MetaText(s) == SubSeq(s, 4, Len(s))

\* The decoded meta is the whole meta text.
MetaIsWholeText ==
    (Decoded /\ d_response.utf8 /\ WellFormedStatusLine(d_response.header)) =>
        /\ d_result.res = "Ok"
        /\ d_result.page.header.status =
               StatusFromStr(SubSeq(d_response.header, 1, 2)).code
        /\ d_result.page.header.meta = MetaText(d_response.header)

\* The lines after the status line join to the empty text: there is none,
\* or there is one and it is empty.
NothingFollows(rest) == rest = <<>> \/ rest = <<"">>

\* The body is None when nothing follows the status line, and otherwise
\* the lines that follow it.
BodyIsRemainder ==
    (Decoded /\ d_result.res = "Ok") =>
        /\ NothingFollows(d_response.rest) => ~d_result.page.body.some
        /\ ~NothingFollows(d_response.rest) =>
               /\ d_result.page.body.some
               /\ d_result.page.body.lines = d_response.rest

\* C31 as claimed: for a status line <code> <meta-text> with a valid code
\* the decoded meta is the entire meta text after the code and its
\* separating space, further spaces included, and the body is None when
\* nothing follows the status line and otherwise the remaining lines joined
\* by newlines.
C31_DecodeResult == MetaIsWholeText /\ BodyIsRemainder

\* What the code does instead: the decoded meta is the meta text up to its
\* first further space.
MetaIsFirstToken ==
    (Decoded /\ d_response.utf8 /\ WellFormedStatusLine(d_response.header)) =>
        /\ d_result.res = "Ok"
        /\ d_result.page.header.meta = Split(MetaText(d_response.header))[1]
        /\ d_result.page.body.some <=> ~NothingFollows(d_response.rest)

\* "20 m m" is decoded to the meta "m".
MetaTruncated ==
    /\ Decoded
    /\ d_response.utf8
    /\ d_response.header = <<"2", "0", " ", "m", " ", "m">>
    /\ d_result.res = "Ok"
    /\ d_result.page.header = [status |-> 20, meta |-> <<"m">>]

\* ----------------------------------------------------------------------
\* Client connections
\* ----------------------------------------------------------------------
StoreTables == <<users, views, feeds, subscriptions, feed_entries>>

NeedUserLine == <<"42", "must select a user">>

\* Complete commands other than USER.
OtherCommands ==
    { <<"LISTSUBSCRIPTIONS">>, <<"SUBSCRIBE", "gemini://a/">>,
      <<"SUBSCRIBE", "gemini://b/">>, <<"UNSUBSCRIBE", "1">>, <<"LISTUNREAD">>,
      <<"MARKREAD", "1">> }

\* C16: a command other than USER on a connection without a selected user
\* is answered by one 42 line and writes nothing to the store, and a
\* connection that has a selected user never goes back to having none.
C16_UserGate ==
    [][\A c \in Conns :
         /\ \A line \in OtherCommands :
              (HandleLine(c, line) /\ ~conn_user[c].some) =>
                  /\ sent' = [conn |-> c, lines |-> <<NeedUserLine>>]
                  /\ UNCHANGED StoreTables
                  /\ UNCHANGED conn_user
         /\ conn_user[c].some => conn_user'[c].some]_vars

\* A connection without a user was answered 42 while the other connection
\* has selected the user created for bob.
C16_Witness ==
    \E c, d \in Conns :
        /\ sent = [conn |-> c, lines |-> <<NeedUserLine>>]
        /\ ~conn_user[c].some
        /\ conn_user[d] = User(2)

\* Lines that are no command: a missing argument, an argument that is no
\* integer, an argument too many, an unknown command word.
BadLines == {<<"USER">>, <<"UNSUBSCRIBE", "x">>, <<"LISTUNREAD", "">>, <<"FOO">>}

\* C17: a line that fails to parse is answered by one 41 line (FOO by
\* 41 unknown command "FOO"), changes neither the selected user nor the
\* store, and leaves the connection reading its next line.
C17_BadCommand ==
    [][\A c \in Conns, line \in BadLines :
         HandleLine(c, line) =>
             /\ sent'.conn = c
             /\ Len(sent'.lines) = 1
             /\ sent'.lines[1][1] = "41"
             /\ line = <<"FOO">> => sent'.lines[1] = <<"41", <<"unknown command", "FOO">>>>
             /\ UNCHANGED StoreTables
             /\ UNCHANGED conn_user
             /\ conns'[c].pc = "idle"]_vars

\* A connection with a selected user was answered 41 for an argument too many.
C17_Witness ==
    \E c \in Conns :
        /\ sent = [conn |-> c, lines |-> <<<<"41", <<"too many arguments", 0, 1>>>>>>]
        /\ conn_user[c].some
        /\ conns[c].pc = "idle"

IsSubscribed(user_id, feed_id) ==
    \E sub \in subscriptions : sub.user_id = user_id /\ sub.feed_id = feed_id

HasViewed(user_id, entry_id) ==
    \E v \in views : v.user_id = user_id /\ v.feed_entry_id = entry_id

\* The unread entries of a user, in the state before a step and after it.
Unread(user_id) ==
    {e \in feed_entries : IsSubscribed(user_id, e.feed_id) /\ ~HasViewed(user_id, e.id)}

UnreadAfter(user_id) ==
    {e \in feed_entries' :
        /\ \E sub \in subscriptions' : sub.user_id = user_id /\ sub.feed_id = e.feed_id
        /\ ~\E v \in views' : v.user_id = user_id /\ v.feed_entry_id = e.id}

UserIds == 1..NumConns

\* The 24 line of an entry.
EntryLineOf(e) == <<"24", e.id, e.feed_id, FeedUrlOf(e.feed_id), e.url, e.title>>

IsListing(lines) == Len(lines) >= 2 /\ lines[1] = <<"23">> /\ lines[Len(lines)] = <<"25">>

\* C18: a LISTUNREAD that the store answers is 23, one 24 line for each
\* entry of a subscribed feed the user has no views row for, and 25.  A
\* views row is never removed, so an entry marked read stays out of every
\* later list; a MARKREAD changes the unread list of no other user, and
\* when it is answered 28 the entry has left the list of the user.
C18_UnreadListing ==
    [][\A c \in Conns :
         /\ (HandleLine(c, <<"LISTUNREAD">>) /\ conn_user[c].some
                /\ sent'.lines # <<<<"51", "store error">>>>) =>
              /\ sent'.conn = c
              /\ IsListing(sent'.lines)
              /\ Len(sent'.lines) = Cardinality(Unread(UserOf(c))) + 2
              /\ {sent'.lines[i] : i \in 2..(Len(sent'.lines) - 1)}
                   = {EntryLineOf(e) : e \in Unread(UserOf(c))}
         /\ views \subseteq views'
         /\ (HandleLine(c, <<"MARKREAD", "1">>) /\ conn_user[c].some) =>
              /\ \A u \in UserIds \ {UserOf(c)} : UnreadAfter(u) = Unread(u)
              /\ sent'.lines = <<<<"28">>>> =>
                   /\ HasViewed(UserOf(c), 1)'
                   /\ \A e \in UnreadAfter(UserOf(c)) : e.id # 1]_vars

\* After MARKREAD 1 the list of the user holds entry 2 alone.
C18_Witness ==
    \E c \in Conns :
        /\ conn_user[c].some
        /\ HasViewed(UserOf(c), 1)
        /\ sent.conn = c
        /\ IsListing(sent.lines)
        /\ Len(sent.lines) = 3
        /\ sent.lines[2][2] = 2

\* C19: unless the store fails, UNSUBSCRIBE 1 of a selected user is
\* answered 27 and removes the row (user, 1) when that row exists, and is
\* answered 40 and removes nothing when it does not; in every case the rows
\* of other users and the tables feeds, feed_entries and views stay.
C19_Unsubscribe ==
    [][\A c \in Conns :
         (HandleLine(c, <<"UNSUBSCRIBE", "1">>) /\ conn_user[c].some) =>
            LET row == [user_id |-> UserOf(c), feed_id |-> 1] IN
            /\ sent'.conn = c
            /\ sent'.lines # <<<<"51", "store error">>>> =>
                 /\ row \in subscriptions =>
                      /\ sent'.lines = <<<<"27">>>>
                      /\ subscriptions' = subscriptions \ {row}
                 /\ row \notin subscriptions =>
                      /\ sent'.lines = <<<<"40", <<"no subscription with feed ID", 1, "exists">>>>>>
                      /\ subscriptions' = subscriptions
            /\ sent'.lines = <<<<"51", "store error">>>> => subscriptions' = subscriptions
            /\ {sub \in subscriptions' : sub.user_id # UserOf(c)}
                 = {sub \in subscriptions : sub.user_id # UserOf(c)}
            /\ UNCHANGED <<feeds, feed_entries, views, users>>]_vars

\* One user was answered 27, the subscription of the other is still there.
C19_Witness ==
    \E c \in Conns :
        /\ sent = [conn |-> c, lines |-> <<<<"27">>>>]
        /\ conn_user[c].some
        /\ ~IsSubscribed(UserOf(c), 1)
        /\ \E sub \in subscriptions : sub.user_id # UserOf(c) /\ sub.feed_id = 1

\* C20: each views row refers to a feed_entries row that exists.
C20_ViewsReferToEntries ==
    \A v \in views : \E e \in feed_entries : e.id = v.feed_entry_id

\* C30: in the loop after a fetch, the last response was a redirect and the
\* URL to fetch is its meta.  A hop for a URL whose scheme is not gemini
\* fails with UnsupportedScheme and opens no connection.  Otherwise the
\* hop opens one connection; a response 30 or 31 is followed (its meta is
\* the next URL, one more attempt is counted), a response of any other
\* status ends the call with that page, and a failed connection ends it
\* with its error.
C30_HopDiscipline ==
    /\ []((r_pc = "loop" /\ fetches >= 1) =>
             /\ server[fetches].kind = "page"
             /\ server[fetches].status \in {30, 31}
             /\ url_to_fetch = server[fetches].meta)
    /\ [][(r_pc = "loop" /\ attempts < REDIRECT_CAP) =>
            LET resp == server[fetches + 1] IN
            IF Scheme(url_to_fetch) # "gemini"
            THEN /\ r_pc' = "failed"
                 /\ r_result' = "UnsupportedScheme"
                 /\ fetches' = fetches
            ELSE /\ fetches' = fetches + 1
                 /\ (resp.kind = "page" /\ resp.status \in {30, 31}) =>
                      /\ r_pc' = "loop"
                      /\ url_to_fetch' = resp.meta
                      /\ attempts' = attempts + 1
                 /\ (resp.kind = "page" /\ resp.status \notin {30, 31}) =>
                      /\ r_pc' = "returned"
                      /\ r_result' = [url |-> url_to_fetch, status |-> resp.status,
                                      meta |-> resp.meta, body |-> resp.body]
                      /\ UNCHANGED <<url_to_fetch, attempts>>
                 /\ resp.kind = "err" =>
                      /\ r_pc' = "failed"
                      /\ r_result' = resp.meta]_vars

\* The third hop of a call is for a URL of another scheme: two connections
\* were opened, and the call has failed with UnsupportedScheme.
C30_Witness ==
    /\ r_pc = "failed"
    /\ r_result = "UnsupportedScheme"
    /\ fetches = 2
    /\ attempts = 2
    /\ Scheme(full_url) = "gemini"

\* ----------------------------------------------------------------------
\* Entries and synchronization
\* ----------------------------------------------------------------------
\* A step in which a pipeline of the scheduler commits its transaction.
CommitStep ==
    \E f \in DOMAIN pipes : pipes[f].pc = "commit" /\ pipes'[f].pc = "ok"

\* C21: feed_entries changes only in the commit of a pipeline of the
\* scheduler, never in a step of a client connection; a row that is stored
\* stays as it is, and a row stored for a (feed_id, url) that had a row is
\* that row: title and published_at of a link never change.
C21_EntryImmutable ==
    [][/\ feed_entries' # feed_entries =>
            /\ CommitStep
            /\ UNCHANGED <<conns, sent, subscriptions>>
       /\ \A r \in feed_entries : r \in feed_entries'
       /\ \A r \in feed_entries, q \in feed_entries' :
            EntryKey(r) = EntryKey(q) => q = r]_vars

\* A pipeline has returned Ok from a body that gives a stored link another
\* title and date than the row has.
C21_Witness ==
    \E f \in DOMAIN pipes :
        /\ pipes[f].pc = "ok"
        /\ \E i \in DOMAIN pipes[f].entries, r \in feed_entries :
             /\ r.feed_id = f
             /\ r.url = pipes[f].entries[i].link
             /\ r.title # pipes[f].entries[i].title
             /\ r.published_at # pipes[f].entries[i].date

\* ----------------------------------------------------------------------
\* Store failures
\* ----------------------------------------------------------------------
\* A step of the handler of connection c.
StepOf(c) ==
    \/ \E line \in ClientLines : HandleLine(c, line)
    \/ SelectUserInsert(c)
    \/ SubscribeInsertFeed(c)
    \/ SubscribeInsertSubscription(c)

Has51(lines) == \E i \in DOMAIN lines : lines[i][1] = "51"

\* The step of connection c in which a store operation of its command
\* fails: the step that answers 51.
FailedStep(c) ==
    /\ sent'.conn = c
    /\ Has51(sent'.lines)
    /\ sent' # sent \/ (conns[c].pc # "idle" /\ conns'[c].pc = "idle")
    /\ StepOf(c)

\* C22: the step in which a store operation of a command fails writes one
\* 51 line to the connection of the command and nothing else: the selected
\* users, the tables, the other connections and the scheduler are as they
\* were, and the connection is back at reading its next line.  No step of
\* one connection writes to another.
C22_ErrorContained ==
    [][\A c \in Conns :
         /\ FailedStep(c) =>
              /\ Len(sent'.lines) = 1
              /\ UNCHANGED <<conn_user, StoreTables, user_seq, feed_seq, entry_seq>>
              /\ UNCHANGED schedvars
              /\ conns'[c] = Idle
              /\ \A d \in Conns \ {c} : conns'[d] = conns[d] /\ pending'[d] = pending[d]
         /\ (sent' # sent /\ sent'.conn = c) =>
              \A d \in Conns \ {c} : ~StepOf(d)]_vars

\* A connection with a selected user was answered 51 while the other
\* connection is in the middle of a command.
C22_Witness ==
    \E c, d \in Conns :
        /\ sent = [conn |-> c, lines |-> <<<<"51", "store error">>>>]
        /\ conn_user[c].some
        /\ conns[c] = Idle
        /\ conns[d].pc = "insert_feed"

\* Status::Success and the other statuses of the class 2x.
IsSuccess(status) == status \div 10 = 2

\* C23: a pipeline whose fetch returned a page with a status outside 2x
\* stores no entry of the body of that page.
C23_NonSuccessIsFailure ==
    [][\A f \in DOMAIN pipes :
         (pipes[f].pc = "commit" /\ pipes[f].status # 0 /\ ~IsSuccess(pipes[f].status))
            => feed_entries' = feed_entries]_vars

StalledFetch(f) == f \in DOMAIN pipes /\ pipes[f].pc = "fetch"

FetchCompleted(f) ==
    f \in DOMAIN pipes /\ pipes[f].pc \in {"begin", "insert", "commit", "ok", "err"}

PipeRunning(f) == f \in DOMAIN pipes /\ ~Ended(pipes[f])

PipeReturned(f) == f \in DOMAIN pipes /\ Returned(pipes[f])

\* C24: while the fetch of feed 1 has no answer, the pipeline of feed 2 of
\* the same tick runs on until it has returned (its entries committed when
\* it returns Ok), unless the fetch of feed 1 completes first.
C24_StallIsolated ==
    (StalledFetch(1) /\ PipeRunning(2)) ~> (PipeReturned(2) \/ FetchCompleted(1))

\* The same, leaving aside the runs in which the scheduler task has ended.
StallIsolatedWhileAlive ==
    (StalledFetch(1) /\ PipeRunning(2))
        ~> (PipeReturned(2) \/ FetchCompleted(1) \/ sched_pc = "dead")

\* The links of the entries a pipeline parsed from its body.
BatchLinks(p) == {p.entries[i].link : i \in DOMAIN p.entries}

\* C25: a pipeline that returns Ok leaves a row for every entry of its body
\* and has added rows for links of that body only; a pipeline that ends any
\* other way has added nothing, and the rows its transaction held are not
\* stored; the rows that were stored stay.  A body without entries ends the
\* pipeline at once, no table written, and no transaction is begun for it.
C25_BatchAtomic ==
    [][\A f \in DOMAIN pipes :
         f \in DOMAIN pipes' =>
           /\ (~Ended(pipes[f]) /\ pipes'[f].pc = "ok") =>
                /\ EntriesStored(f, pipes'[f], feed_entries')
                /\ feed_entries \subseteq feed_entries'
                /\ \A r \in feed_entries' \ feed_entries :
                     r.feed_id = f /\ r.url \in BatchLinks(pipes'[f])
                /\ pipes'[f].entries = <<>> => UNCHANGED dbvars
           /\ (~Ended(pipes[f]) /\ pipes'[f].pc \in {"err", "dropped"}) =>
                /\ feed_entries' = feed_entries
                /\ \A i \in DOMAIN pipes[f].tx, r \in feed_entries' :
                     ~(r.feed_id = f /\ r.url = pipes[f].tx[i].url)
           /\ pipes'[f].pc \in {"begin", "insert", "commit"} =>
                pipes'[f].entries # <<>>]_vars

\* Of two pipelines of a tick, one has stored the two new entries of its
\* body, and the other ended with an error and none of its feed is stored.
C25_Witness ==
    \E f, g \in DOMAIN pipes :
        /\ pipes[f].pc = "ok"
        /\ Len(pipes[f].entries) = 3
        /\ Cardinality({r \in feed_entries : r.feed_id = f}) = 2
        /\ pipes[g].pc = "err"
        /\ {r \in feed_entries : r.feed_id = g} = {}

\* C26: every subscriptions row refers to a feed that is in feeds.
C26_SubscriptionHasFeed ==
    \A sub \in subscriptions : \E f \in feeds : f.id = sub.feed_id

\* ----------------------------------------------------------------------
\* Repeated commands
\* ----------------------------------------------------------------------
StoreErrorLine == <<"51", "store error">>

SubscribeLines == {<<"SUBSCRIBE", "gemini://a/">>, <<"SUBSCRIBE", "gemini://b/">>}

\* C27: feeds holds one row per url and per id.  Unless the store fails,
\* the SELECT of a SUBSCRIBE finds the feed of its url when there is one,
\* and its last statement is answered 26, adds the row (user, feed) at most,
\* and changes nothing when that row is there; a SUBSCRIBE that finds its
\* feed writes no table before that.
C27_SubscribeIdempotent ==
    /\ [](\A f, g \in feeds : (f.url = g.url \/ f.id = g.id) => f = g)
    /\ [][\A c \in Conns :
            /\ SubscribeInsertSubscription(c) =>
                 LET row == [user_id |-> UserOf(c), feed_id |-> conns[c].feed_id] IN
                 /\ UNCHANGED <<feeds, feed_entries, users, views>>
                 /\ subscriptions' \subseteq subscriptions \cup {row}
                 /\ sent'.lines # <<StoreErrorLine>> =>
                      /\ sent' = [conn |-> c, lines |-> <<<<"26">>>>]
                      /\ subscriptions' = subscriptions \cup {row}
            /\ \A line \in SubscribeLines :
                 (HandleLine(c, line) /\ conn_user[c].some) =>
                     /\ UNCHANGED StoreTables
                     /\ conns'[c].pc = "insert_subscription" =>
                          \E f \in feeds : f.url = line[2] /\ f.id = conns'[c].feed_id]_vars

\* alice, subscribed to feed 1 from the start, has sent SUBSCRIBE for its
\* url twice and was answered 26; the tables are as they were.
C27_Witness ==
    \E c \in Conns :
        /\ sent = [conn |-> c, lines |-> <<<<"26">>>>]
        /\ conn_user[c] = User(1)
        /\ commands = 2
        /\ subscriptions = {[user_id |-> 1, feed_id |-> 1]}
        /\ feeds = {[id |-> 1, url |-> "gemini://a/"]}
        /\ \A d \in Conns \ {c} : ~conn_user[d].some

\* C28: unless the store fails, MARKREAD 1 of a selected user is answered
\* 28, the first time and every time after it, and the views row (user, 1)
\* is there afterwards.
C28_MarkReadIdempotent ==
    [][\A c \in Conns :
         (HandleLine(c, <<"MARKREAD", "1">>) /\ conn_user[c].some
             /\ sent'.lines # <<StoreErrorLine>>) =>
            /\ sent' = [conn |-> c, lines |-> <<<<"28">>>>]
            /\ \E v \in views' : v.user_id = UserOf(c) /\ v.feed_entry_id = 1]_vars

\* C29: users holds one row per username, and unless the store fails a
\* USER command whose SELECT gave no row is answered 20 with the id of the
\* row of its username.
C29_UserCreation ==
    /\ [](\A u, v \in users : u.username = v.username => u = v)
    /\ [][\A c \in Conns :
            (conns[c].pc = "insert_user" /\ SelectUserInsert(c)
                /\ sent'.lines # <<StoreErrorLine>>) =>
               \E u \in users' :
                  /\ u.username = pending[c]
                  /\ sent' = [conn |-> c, lines |-> <<<<"20", u.id>>>>]]_vars

=============================================================================
